---- MODULE Spec2Model ----
(***************************************************************************)
(* train.py: adversarial training script of a next-frame predictor.        *)
(* The script is one sequential process.  Every statement that changes     *)
(* state is one action, named after its first source line (L63 is line 63  *)
(* of train.py), and pc is the line about to be executed.  The networks,   *)
(* the loss, the metrics and the plotting are external collaborators; what *)
(* the script does with them is modelled:                                  *)
(*   - a parameter set is the number of optimizer steps applied to it,     *)
(*   - a .grad buffer is the set of losses whose backward pass has been    *)
(*     accumulated into it since it was last zeroed,                       *)
(*   - a tensor is its scalar value, the batch it was computed in, the     *)
(*     parameter versions it was computed from and the parameter sets its  *)
(*     autograd graph reaches,                                             *)
(*   - a file is its content.                                              *)
(* An unhandled exception ends the process (there is no try/except in the  *)
(* script): action Fault.                                                  *)
(***************************************************************************)
EXTENDS Integers, Sequences, FiniteSets, TLC

\* ------------------------------------------------------------- bounds
MaxEpochs == 2
MaxBatches == 2
MaxLossVal == 1

\* config['epochs'] values and loader lengths explored
EpochChoices == 0..MaxEpochs
BatchChoices == 0..MaxBatches
\* the scalar a loss can evaluate to
LossVals == 0..MaxLossVal
\* (inception score mean, FID) pairs the metrics object can return
Scores == {<<0, 1>>, <<1, 0>>}

VARIABLES
    pc,            \* line about to be executed, "done" or "crashed"
    crashedAt,     \* the line whose execution raised, "" while running
    epochs,        \* config['epochs']
    nbatches,      \* len(training_loader)
    epoch,         \* loop variable of line 54 (next index of range(epochs))
    i,             \* loop variable of line 57
    paramsG,       \* generator.parameters(): number of updates applied
    paramsD,       \* discriminator.parameters(): number of updates applied
    optG,          \* optimizerG state: number of step() calls
    optD,          \* optimizerD state: number of step() calls
    gradG,         \* .grad of the generator's parameters
    gradD,         \* .grad of the discriminator's parameters
    fake,          \* fake_frame2
    errD,          \* errD
    errG,          \* errG
    lossesG,       \* lossesG
    lossesD,       \* lossesD
    score,         \* (inception_score_mean, fid)
    metricsCsv,    \* rows of metrics.csv
    images,        \* epoch indices of the generated_images/epoch_{e}.png written
    stdout,        \* summaries printed by lines 112-114
    lossesGnpy,    \* lossesG.npy
    lossesDnpy,    \* lossesD.npy
    generatorPth,  \* generator.pth
    trace,         \* history: optimizer calls made, in order
    batchIters,    \* history: batch-loop bodies completed
    evals,         \* history: per-epoch evaluation and logging phases completed
    metricAppends  \* history: executions of line 107

cfg == <<epochs, nbatches>>
loopv == <<epoch, i>>
nets == <<paramsG, paramsD, optG, optD>>
grads == <<gradG, gradD>>
tensors == <<fake, errD, errG>>
mem == <<lossesG, lossesD, score>>
disk == <<metricsCsv, images, lossesGnpy, lossesDnpy, generatorPth>>
hist == <<trace, batchIters, evals, metricAppends>>
vars == <<pc, crashedAt, cfg, loopv, nets, grads, tensors, mem, disk, stdout, hist>>

\* ------------------------------------------------------------- data
\* a name not bound yet / a tensor without a graph
NoTensor == [val |-> 0, src |-> <<0 - 1, 0 - 1>>, dver |-> 0, gver |-> 0,
             onG |-> FALSE, onD |-> FALSE]
\* a file that does not exist
NoFile == [exists |-> FALSE, data |-> <<>>]
\* line 51
Header == <<"Epoch", "Inception Score", "FID">>
\* metrics.csv as a previous run can have left it (line 48 opens it with 'w')
StaleMetrics == {<<>>, <<Header, <<0, 0, 0>>, <<1, 0, 0>>, <<2, 0, 0>>, <<3, 0, 0>>>>}

\* the line that is or was being executed
At == IF pc = "crashed" THEN crashedAt ELSE pc

\* ------------------------------------------------------------- control flow
\* program order of the straight-line statements; for a loop head, the first
\* statement of its body
ProgramOrder(p) ==
    CASE p = "l48" -> "l51"
      [] p = "l51" -> "l54"
      [] p = "l54" -> "l57"
      [] p = "l57" -> "l63"
      [] p = "l63" -> "l64"
      [] p = "l64" -> "l66"
      [] p = "l66" -> "l67"
      [] p = "l67" -> "l70"
      [] p = "l70" -> "l71"
      [] p = "l71" -> "l74"
      [] p = "l74" -> "l75"
      [] p = "l75" -> "l77"
      [] p = "l77" -> "l78"
      [] p = "l78" -> "l81"
      [] p = "l81" -> "l57"
      [] p = "l86" -> "l89"
      [] p = "l89" -> "l97"
      [] p = "l97" -> "l101"
      [] p = "l101" -> "l105"
      [] p = "l105" -> "l110"
      [] p = "l110" -> "l111"
      [] p = "l111" -> "l112"
      [] p = "l112" -> "l54"
      [] p = "l117" -> "l118"
      [] p = "l118" -> "l121"
      [] p = "l121" -> "done"
      [] OTHER -> "done"

\* variant: the generator block (74-78) placed before the discriminator block (63-71)
SuccGeneratorFirst(p) ==
    CASE p = "l57" -> "l74"
      [] p = "l78" -> "l63"
      [] p = "l71" -> "l81"
      [] OTHER -> ProgramOrder(p)
\* variant: the metrics row (105-107) written before the image (95-98)
SuccRowBeforeImage(p) ==
    CASE p = "l89" -> "l101"
      [] p = "l105" -> "l97"
      [] p = "l97" -> "l110"
      [] OTHER -> ProgramOrder(p)
\* variant: line 111 missing
SuccNoLossDAppend(p) ==
    CASE p = "l110" -> "l112"
      [] OTHER -> ProgramOrder(p)
\* variant: the np.save lines (117-118) indented into the epoch loop
SuccSaveLossesInLoop(p) ==
    CASE p = "l112" -> "l117"
      [] p = "l118" -> "l54"
      [] OTHER -> ProgramOrder(p)
\* variant: torch.save (121) indented into the epoch loop, a per-epoch checkpoint
SuccCheckpointInLoop(p) ==
    CASE p = "l112" -> "l121"
      [] p = "l121" -> "l54"
      [] OTHER -> ProgramOrder(p)
\* the statement that follows a statement
Succ(p) == ProgramOrder(p)

\* variant: range(1, epochs)
EpochLoopOffByOne(e, n) == e + 1 < n
\* for epoch in range(config['epochs']): another iteration is due
EpochLoopContinues(e, n) == e < n
\* for i, (...) in enumerate(training_loader): another batch is due
BatchLoopContinues(b, n) == b < n

\* ------------------------------------------------------------- autograd
\* variant: zero_grad() missing
ZeroGradNoop(g) == g
\* optimizer.zero_grad() on a .grad buffer
ZeroGrad(g) == {}
\* tensor.detach(): same value, cut from the graph
Detach(t) == [t EXCEPT !.onG = FALSE, !.onD = FALSE]
\* loss.backward(): accumulate into the .grad of the parameters the graph reaches
BackwardG(g, name, t) == IF t.onG THEN g \cup {<<name, t.src>>} ELSE g
BackwardD(g, name, t) == IF t.onD THEN g \cup {<<name, t.src>>} ELSE g
\* variant: optimizerG constructed over discriminator.parameters()
OptimizerGOverDiscriminator == "D"
\* the parameter set each optimizer was constructed over
OptimizerGParams == "G"
OptimizerDParams == "D"
\* tensor.item()
Item(t) == t.val
\* np.array(list)
NpArray(l) == l
\* variant: the 1-based epoch number of the progress bar written to the row
MetricsRowOneBased(e, sc) == <<e + 1, sc[1], sc[2]>>
\* the row written by line 107
MetricsRow(e, sc) == <<e, sc[1], sc[2]>>
\* variant: errD logged as the generator loss
LoggedGIsErrD == errD.val
\* the argument of lossesG.append at line 110
LoggedG == Item(errG)

\* ------------------------------------------------------------- initial state
\* the state after line 45; the loader and the config are the inputs
Init ==
    /\ pc = "l48"
    /\ crashedAt = ""
    /\ epochs \in EpochChoices
    /\ nbatches \in BatchChoices
    /\ epoch = 0
    /\ i = 0
    /\ paramsG = 0 /\ paramsD = 0 /\ optG = 0 /\ optD = 0
    /\ gradG = {} /\ gradD = {}
    /\ fake = NoTensor /\ errD = NoTensor /\ errG = NoTensor
    /\ lossesG = <<>> /\ lossesD = <<>>
    /\ score = <<0, 0>>
    /\ metricsCsv \in StaleMetrics
    /\ images = <<>>
    /\ stdout = <<>>
    /\ lossesGnpy = NoFile /\ lossesDnpy = NoFile /\ generatorPth = NoFile
    /\ trace = <<>>
    /\ batchIters = 0 /\ evals = 0 /\ metricAppends = 0

\* ------------------------------------------------------------- actions
Call(op, g) == [op |-> op, epoch |-> epoch, batch |-> i, grads |-> g]

\* line 48: open('metrics.csv', 'w') truncates the file
L48 ==
    /\ pc = "l48"
    /\ metricsCsv' = <<>>
    /\ pc' = Succ("l48")
    /\ UNCHANGED <<crashedAt, cfg, loopv, nets, grads, tensors, mem, images,
                   lossesGnpy, lossesDnpy, generatorPth, stdout, hist>>

\* lines 49-51: the header row, on disk when the with block closes the file
L51 ==
    /\ pc = "l51"
    /\ metricsCsv' = Append(metricsCsv, Header)
    /\ pc' = Succ("l51")
    /\ UNCHANGED <<crashedAt, cfg, loopv, nets, grads, tensors, mem, images,
                   lossesGnpy, lossesDnpy, generatorPth, stdout, hist>>

\* line 54: head of the epoch loop
L54 ==
    /\ pc = "l54"
    /\ IF EpochLoopContinues(epoch, epochs)
         THEN pc' = Succ("l54") /\ i' = 0
         ELSE pc' = "l117" /\ i' = i
    /\ UNCHANGED <<crashedAt, cfg, epoch, nets, grads, tensors, mem, disk, stdout, hist>>

\* lines 57-60: head of the batch loop
L57 ==
    /\ pc = "l57"
    /\ pc' = IF BatchLoopContinues(i, nbatches) THEN Succ("l57") ELSE "l86"
    /\ UNCHANGED <<crashedAt, cfg, loopv, nets, grads, tensors, mem, disk, stdout, hist>>

\* line 63: optimizerD.zero_grad()
L63 ==
    /\ pc = "l63"
    /\ IF OptimizerDParams = "D"
         THEN gradD' = ZeroGrad(gradD) /\ gradG' = gradG
         ELSE gradG' = ZeroGrad(gradG) /\ gradD' = gradD
    /\ trace' = Append(trace, Call("zeroD", {}))
    /\ pc' = Succ("l63")
    /\ UNCHANGED <<crashedAt, cfg, loopv, nets, tensors, mem, disk, stdout,
                   batchIters, evals, metricAppends>>

\* lines 64-65: errD_real, a forward pass of the discriminator on the real pair
L64 ==
    /\ pc = "l64"
    /\ pc' = Succ("l64")
    /\ UNCHANGED <<crashedAt, cfg, loopv, nets, grads, tensors, mem, disk, stdout, hist>>

\* line 66: fake_frame2 = generator(frame1)
L66 ==
    /\ pc = "l66"
    /\ fake' = [val |-> 0, src |-> <<epoch, i>>, dver |-> 0, gver |-> paramsG,
                onG |-> TRUE, onD |-> FALSE]
    /\ pc' = Succ("l66")
    /\ UNCHANGED <<crashedAt, cfg, loopv, nets, grads, errD, errG, mem, disk, stdout, hist>>

\* lines 67-69: errD = errD_real + errD_fake, errD_fake on the detached fake pair
L67 ==
    /\ pc = "l67"
    /\ \E v \in LossVals :
         errD' = [val |-> v, src |-> <<epoch, i>>, dver |-> paramsD,
                  gver |-> Detach(fake).gver, onG |-> Detach(fake).onG, onD |-> TRUE]
    /\ pc' = Succ("l67")
    /\ UNCHANGED <<crashedAt, cfg, loopv, nets, grads, fake, errG, mem, disk, stdout, hist>>

\* line 70: errD.backward()
L70 ==
    /\ pc = "l70"
    /\ gradD' = BackwardD(gradD, "errD", errD)
    /\ gradG' = BackwardG(gradG, "errD", errD)
    /\ trace' = Append(trace, Call("backD", {}))
    /\ pc' = Succ("l70")
    /\ UNCHANGED <<crashedAt, cfg, loopv, nets, tensors, mem, disk, stdout,
                   batchIters, evals, metricAppends>>

\* line 71: optimizerD.step()
L71 ==
    /\ pc = "l71"
    /\ IF OptimizerDParams = "D"
         THEN /\ paramsD' = paramsD + 1 /\ paramsG' = paramsG
              /\ trace' = Append(trace, Call("stepD", gradD))
         ELSE /\ paramsG' = paramsG + 1 /\ paramsD' = paramsD
              /\ trace' = Append(trace, Call("stepD", gradG))
    /\ optD' = optD + 1
    /\ pc' = Succ("l71")
    /\ UNCHANGED <<crashedAt, cfg, loopv, optG, grads, tensors, mem, disk, stdout,
                   batchIters, evals, metricAppends>>

\* line 74: optimizerG.zero_grad()
L74 ==
    /\ pc = "l74"
    /\ IF OptimizerGParams = "G"
         THEN gradG' = ZeroGrad(gradG) /\ gradD' = gradD
         ELSE gradD' = ZeroGrad(gradD) /\ gradG' = gradG
    /\ trace' = Append(trace, Call("zeroG", {}))
    /\ pc' = Succ("l74")
    /\ UNCHANGED <<crashedAt, cfg, loopv, nets, tensors, mem, disk, stdout,
                   batchIters, evals, metricAppends>>

\* lines 75-76: errG from the discriminator's output on the attached fake pair
L75 ==
    /\ pc = "l75"
    /\ \E v \in LossVals :
         errG' = [val |-> v, src |-> <<epoch, i>>, dver |-> paramsD,
                  gver |-> fake.gver, onG |-> fake.onG, onD |-> TRUE]
    /\ pc' = Succ("l75")
    /\ UNCHANGED <<crashedAt, cfg, loopv, nets, grads, fake, errD, mem, disk, stdout, hist>>

\* line 77: errG.backward()
L77 ==
    /\ pc = "l77"
    /\ gradD' = BackwardD(gradD, "errG", errG)
    /\ gradG' = BackwardG(gradG, "errG", errG)
    /\ trace' = Append(trace, Call("backG", {}))
    /\ pc' = Succ("l77")
    /\ UNCHANGED <<crashedAt, cfg, loopv, nets, tensors, mem, disk, stdout,
                   batchIters, evals, metricAppends>>

\* line 78: optimizerG.step()
L78 ==
    /\ pc = "l78"
    /\ IF OptimizerGParams = "G"
         THEN /\ paramsG' = paramsG + 1 /\ paramsD' = paramsD
              /\ trace' = Append(trace, Call("stepG", gradG))
         ELSE /\ paramsD' = paramsD + 1 /\ paramsG' = paramsG
              /\ trace' = Append(trace, Call("stepG", gradD))
    /\ optG' = optG + 1
    /\ pc' = Succ("l78")
    /\ UNCHANGED <<crashedAt, cfg, loopv, optD, grads, tensors, mem, disk, stdout,
                   batchIters, evals, metricAppends>>

\* line 81: end of the batch body; enumerate() yields the next index
L81 ==
    /\ pc = "l81"
    /\ i' = i + 1
    /\ batchIters' = batchIters + 1
    /\ pc' = Succ("l81")
    /\ UNCHANGED <<crashedAt, cfg, epoch, nets, grads, tensors, mem, disk, stdout,
                   trace, evals, metricAppends>>

\* lines 86-87: next(iter(training_loader)); StopIteration on an empty loader
L86 ==
    /\ pc = "l86"
    /\ IF nbatches = 0
         THEN pc' = "crashed" /\ crashedAt' = "l86"
         ELSE pc' = Succ("l86") /\ crashedAt' = crashedAt
    /\ UNCHANGED <<cfg, loopv, nets, grads, tensors, mem, disk, stdout, hist>>

\* lines 89-92: generator forward under no_grad, detached; the grid
L89 ==
    /\ pc = "l89"
    /\ pc' = Succ("l89")
    /\ UNCHANGED <<crashedAt, cfg, loopv, nets, grads, tensors, mem, disk, stdout, hist>>

\* lines 95-98: plt.savefig(f'generated_images/epoch_{epoch}.png')
L97 ==
    /\ pc = "l97"
    /\ images' = Append(images, epoch)
    /\ pc' = Succ("l97")
    /\ UNCHANGED <<crashedAt, cfg, loopv, nets, grads, tensors, mem, metricsCsv,
                   lossesGnpy, lossesDnpy, generatorPth, stdout, hist>>

\* lines 101-102: inception score and FID
L101 ==
    /\ pc = "l101"
    /\ score' \in Scores
    /\ pc' = Succ("l101")
    /\ UNCHANGED <<crashedAt, cfg, loopv, nets, grads, tensors, lossesG, lossesD,
                   disk, stdout, hist>>

\* lines 105-107: open('metrics.csv', 'a'), one row
L105 ==
    /\ pc = "l105"
    /\ metricsCsv' = Append(metricsCsv, MetricsRow(epoch, score))
    /\ metricAppends' = metricAppends + 1
    /\ pc' = Succ("l105")
    /\ UNCHANGED <<crashedAt, cfg, loopv, nets, grads, tensors, mem, images,
                   lossesGnpy, lossesDnpy, generatorPth, stdout,
                   trace, batchIters, evals>>

\* line 110: lossesG.append(errG.item())
L110 ==
    /\ pc = "l110"
    /\ lossesG' = Append(lossesG, LoggedG)
    /\ pc' = Succ("l110")
    /\ UNCHANGED <<crashedAt, cfg, loopv, nets, grads, tensors, lossesD, score,
                   disk, stdout, hist>>

\* line 111: lossesD.append(errD.item())
L111 ==
    /\ pc = "l111"
    /\ lossesD' = Append(lossesD, Item(errD))
    /\ pc' = Succ("l111")
    /\ UNCHANGED <<crashedAt, cfg, loopv, nets, grads, tensors, lossesG, score,
                   disk, stdout, hist>>

\* lines 112-114: the summary; end of the epoch body, range() yields the next index
L112 ==
    /\ pc = "l112"
    /\ stdout' = Append(stdout, <<epoch, Item(errD), Item(errG), score>>)
    /\ epoch' = epoch + 1
    /\ evals' = evals + 1
    /\ pc' = Succ("l112")
    /\ UNCHANGED <<crashedAt, cfg, i, nets, grads, tensors, mem, disk,
                   trace, batchIters, metricAppends>>

\* line 117: np.save('lossesG.npy', np.array(lossesG))
L117 ==
    /\ pc = "l117"
    /\ lossesGnpy' = [exists |-> TRUE, data |-> NpArray(lossesG)]
    /\ pc' = Succ("l117")
    /\ UNCHANGED <<crashedAt, cfg, loopv, nets, grads, tensors, mem, metricsCsv,
                   images, lossesDnpy, generatorPth, stdout, hist>>

\* line 118: np.save('lossesD.npy', np.array(lossesD))
L118 ==
    /\ pc = "l118"
    /\ lossesDnpy' = [exists |-> TRUE, data |-> NpArray(lossesD)]
    /\ pc' = Succ("l118")
    /\ UNCHANGED <<crashedAt, cfg, loopv, nets, grads, tensors, mem, metricsCsv,
                   images, lossesGnpy, generatorPth, stdout, hist>>

\* line 121: torch.save(generator.state_dict(), 'generator.pth')
L121 ==
    /\ pc = "l121"
    /\ generatorPth' = [exists |-> TRUE, data |-> <<paramsG>>]
    /\ pc' = Succ("l121")
    /\ UNCHANGED <<crashedAt, cfg, loopv, nets, grads, tensors, mem, metricsCsv,
                   images, lossesGnpy, lossesDnpy, stdout, hist>>

\* the statement about to run raises (I/O error, device error, interrupt):
\* nothing catches it, the interpreter exits
Fault ==
    /\ pc \notin {"done", "crashed"}
    /\ crashedAt' = pc
    /\ pc' = "crashed"
    /\ UNCHANGED <<cfg, loopv, nets, grads, tensors, mem, disk, stdout, hist>>

Next ==
    \/ L48 \/ L51 \/ L54 \/ L57
    \/ L63 \/ L64 \/ L66 \/ L67 \/ L70 \/ L71
    \/ L74 \/ L75 \/ L77 \/ L78 \/ L81
    \/ L86 \/ L89 \/ L97 \/ L101 \/ L105
    \/ L110 \/ L111 \/ L112
    \/ L117 \/ L118 \/ L121
    \/ Fault

Spec == Init /\ [][Next]_vars

\* ------------------------------------------------------------- properties
DiscriminatorLines == {"l63", "l64", "l66", "l67", "l70", "l71"}
GeneratorLines == {"l74", "l75", "l77", "l78"}
BatchLines == {"l57", "l81"} \cup DiscriminatorLines \cup GeneratorLines
NoGradLines == {"l86", "l89", "l97", "l101"}
LoggingLines == {"l105", "l110", "l111", "l112"}
EvalLines == NoGradLines \cup LoggingLines
FinalLines == {"l117", "l118", "l121", "done"}
\* the optimizer calls of one batch, in source order
BatchCalls == <<"zeroD", "backD", "stepD", "zeroG", "backG", "stepG">>
\* rows of metrics.csv below the header
Rows == IF At \in {"l48", "l51"} THEN 0 ELSE Len(metricsCsv) - 1
IsPrefix(a, b) == Len(a) <= Len(b) /\ \A k \in 1..Len(a) : a[k] = b[k]
\* batch bodies completed, from the loop variables
BatchesDone ==
    IF At \in BatchLines THEN epoch * nbatches + i
    ELSE IF At \in EvalLines THEN (epoch + 1) * nbatches
    ELSE epoch * nbatches

\* C1: the optimizer calls made so far are the six calls of a batch (zero_grad,
\* backward, step of the discriminator, then zero_grad, backward, step of the
\* generator) repeated once per batch in batch order, a batch body that has ended
\* has made exactly its six, and the generator loss that is backpropagated and
\* stepped on was computed from the discriminator as updated in the same batch.
C1_UpdateOrder ==
    /\ \A k \in 1..Len(trace) :
         /\ trace[k].op = BatchCalls[((k - 1) % 6) + 1]
         /\ trace[k].batch < nbatches
         /\ trace[k].epoch * nbatches + trace[k].batch = (k - 1) \div 6
    /\ batchIters = BatchesDone
    /\ At \notin (DiscriminatorLines \cup GeneratorLines) =>
         Len(trace) = 6 * (batchIters + (IF At = "l81" THEN 1 ELSE 0))
    /\ At \in {"l77", "l78"} =>
         /\ errG.src = <<epoch, i>>
         /\ errG.dver = paramsD
         /\ paramsD = batchIters + 1
         /\ paramsG = batchIters
C1_Witness ==
    /\ pc = "l81" /\ epoch = 1 /\ i = 1
    /\ Len(trace) = 24
    /\ trace[21].op = "stepD" /\ trace[24].op = "stepG"

\* C2: a run never executes more than epochs * len(loader) batch bodies or more than
\* epochs evaluation phases, and one that reaches its end has executed exactly that
\* many, whatever the losses were; with epochs = 0 it made no optimizer call and
\* metrics.csv holds the header only.
C2_RunLength ==
    /\ batchIters <= epochs * nbatches
    /\ evals <= epochs
    /\ pc = "done" =>
         /\ batchIters = epochs * nbatches
         /\ evals = epochs
         /\ Len(trace) = 6 * epochs * nbatches
         /\ epochs = 0 => (trace = <<>> /\ metricsCsv = <<Header>> /\ metricAppends = 0)
C2_Witness ==
    /\ pc = "done" /\ epochs = 2 /\ nbatches = 2
    /\ batchIters = 4 /\ evals = 2
    /\ \E k \in 1..2 : lossesG[k] # lossesD[k]

\* C3: once the header is written, metrics.csv is the header followed by one row per
\* executed append, row j carrying epoch index j - 1 and the scores computed in that
\* epoch, and the appends executed are those of the epochs logged so far.
C3_MetricsFile ==
    At \notin {"l48", "l51"} =>
      /\ Len(metricsCsv) = metricAppends + 1
      /\ metricsCsv[1] = Header
      /\ \A j \in 1..metricAppends : metricsCsv[j + 1][1] = j - 1
      /\ metricAppends = epoch + (IF At \in {"l110", "l111", "l112"} THEN 1 ELSE 0)
      /\ \A j \in 1..Len(stdout) :
           stdout[j][4] = <<metricsCsv[j + 1][2], metricsCsv[j + 1][3]>>
C3_Witness ==
    /\ pc = "l110" /\ epoch = 1
    /\ Len(metricsCsv) = 3
    /\ metricsCsv[2][1] = 0 /\ metricsCsv[3][1] = 1

\* C4 as stated: the two loss lists have equal length in every state, k after k
\* epochs, and the saved arrays have length epochs.
C4_Original ==
    /\ Len(lossesG) = Len(lossesD)
    /\ At \in {"l54", "l57"} => Len(lossesD) = epoch
    /\ lossesGnpy.exists => Len(lossesGnpy.data) = epochs
    /\ lossesDnpy.exists => Len(lossesDnpy.data) = epochs
\* the length of a loss list when line 110 and line 111 have both run for k epochs
LossesLogged == epoch + (IF At = "l112" THEN 1 ELSE 0)
\* C4 amended: the loss lists only grow at the end; lossesD has one element per
\* epoch whose logging has run, lossesG has the same length except between line
\* 110 and line 111, where it is one longer; the saved arrays have length epochs.
C4_LossLists ==
    [][ /\ IsPrefix(lossesG, lossesG') /\ IsPrefix(lossesD, lossesD')
        /\ Len(lossesG') <= Len(lossesG) + 1 /\ Len(lossesD') <= Len(lossesD) + 1
        /\ Len(lossesD') = LossesLogged'
        /\ Len(lossesG') = Len(lossesD') + (IF At' = "l111" THEN 1 ELSE 0)
        /\ lossesGnpy'.exists => Len(lossesGnpy'.data) = epochs'
        /\ lossesDnpy'.exists => Len(lossesDnpy'.data) = epochs' ]_vars
C4_Witness ==
    /\ pc = "done" /\ epochs = 2
    /\ Len(lossesGnpy.data) = 2 /\ Len(lossesDnpy.data) = 2

\* C5: the evaluation phase of an epoch starts after all its batches, and its side
\* effects come in the order image, metrics row, loss appends, summary: in every
\* state, a crashed one included, images >= rows >= loss-list lengths >= summaries
\* and the first and the last differ by at most one; image k is epoch k - 1's.
C5_SideEffectOrder ==
    /\ At \in EvalLines => (i = nbatches /\ batchIters = (epoch + 1) * nbatches)
    /\ Len(images) >= Rows
    /\ Rows >= Len(lossesG)
    /\ Len(lossesG) >= Len(lossesD)
    /\ Len(lossesD) >= Len(stdout)
    /\ Len(images) <= Len(stdout) + 1
    /\ \A k \in 1..Len(images) : images[k] = k - 1
C5_Witness ==
    /\ pc = "crashed" /\ crashedAt = "l105" /\ epoch = 1
    /\ Len(images) = 2 /\ Rows = 1 /\ Len(lossesG) = 1

C7_Original ==
    (At = "l54" /\ epoch >= 1) =>
      /\ lossesGnpy.exists /\ lossesGnpy.data = lossesG
      /\ lossesDnpy.exists /\ lossesDnpy.data = lossesD
\* C7 amended: the per-epoch stage saves the image and the metrics row and appends
\* the epoch's losses to the in-memory lists; the loss arrays are saved once, after
\* the last epoch, and then hold all the epochs' losses.
C7_LossesSavedAtEnd ==
    /\ At = "l54" =>
         (Len(images) = epoch /\ Rows = epoch
          /\ Len(lossesG) = epoch /\ Len(lossesD) = epoch)
    /\ lossesGnpy.exists =>
         (epoch = epochs /\ lossesGnpy.data = lossesG /\ Len(lossesG) = epochs)
    /\ lossesDnpy.exists =>
         (epoch = epochs /\ lossesDnpy.data = lossesD /\ Len(lossesD) = epochs)
    /\ pc = "done" => (lossesGnpy.exists /\ lossesDnpy.exists)
C7_Witness ==
    /\ pc = "l54" /\ epoch = 1 /\ epochs = 2
    /\ Len(images) = 1 /\ Rows = 1 /\ Len(lossesG) = 1
    /\ ~lossesGnpy.exists /\ ~lossesDnpy.exists

\* C8: the discriminator block changes neither the generator's parameters nor
\* optimizerG, the generator block neither the discriminator's parameters nor
\* optimizerD, the evaluation and logging phase none of the four; a parameter set
\* changes only in its own optimizer's step().
C8_OwnOptimizerOnly ==
    [][ /\ pc \in DiscriminatorLines => (paramsG' = paramsG /\ optG' = optG)
        /\ pc \in GeneratorLines => (paramsD' = paramsD /\ optD' = optD)
        /\ pc \in EvalLines => (nets' = nets)
        /\ paramsD' # paramsD => (pc = "l71" /\ optD' = optD + 1)
        /\ paramsG' # paramsG => (pc = "l78" /\ optG' = optG + 1) ]_vars
C8_Witness ==
    /\ pc = "l105" /\ epoch = 1 /\ nbatches = 2
    /\ paramsD = 4 /\ paramsG = 4 /\ optD = 4 /\ optG = 4

\* C9: every optimizerD.step() consumed exactly the gradient of the errD of its own
\* batch and every optimizerG.step() exactly that of the errG of its own batch; the
\* generator's .grad never holds a gradient of errD; and from optimizerD.zero_grad()
\* to errD.backward() the discriminator's .grad is empty.
C9_NoStaleGradient ==
    /\ \A k \in 1..Len(trace) :
         /\ trace[k].op = "stepD" =>
              trace[k].grads = {<<"errD", <<trace[k].epoch, trace[k].batch>>>>}
         /\ trace[k].op = "stepG" =>
              trace[k].grads = {<<"errG", <<trace[k].epoch, trace[k].batch>>>>}
    /\ \A g \in gradG : g[1] = "errG"
    /\ At \in {"l64", "l66", "l67", "l70"} => gradD = {}
C9_Witness ==
    /\ pc = "l74" /\ epoch = 1 /\ i = 0 /\ nbatches = 2
    /\ Len(trace) = 15
    /\ trace[15].grads = {<<"errD", <<1, 0>>>>}
    /\ gradG = {<<"errG", <<0, 1>>>>}

\* C10: the pair appended in epoch e is the value of errG and errD as computed in
\* the last batch of epoch e, and every printed summary carries its epoch index and
\* the pair appended for that epoch.
C10_LoggedLosses ==
    /\ At \in {"l111", "l112"} =>
         /\ Len(lossesG) = epoch + 1
         /\ lossesG[epoch + 1] = errG.val
         /\ errG.src = <<epoch, nbatches - 1>>
    /\ At = "l112" =>
         /\ Len(lossesD) = epoch + 1
         /\ lossesD[epoch + 1] = errD.val
         /\ errD.src = <<epoch, nbatches - 1>>
    /\ \A k \in 1..Len(stdout) :
         /\ stdout[k][1] = k - 1
         /\ stdout[k][2] = lossesD[k]
         /\ stdout[k][3] = lossesG[k]
C10_Witness ==
    /\ pc = "l54" /\ epoch = 2 /\ nbatches = 2
    /\ Len(stdout) = 2
    /\ lossesG[1] # lossesG[2] /\ lossesD[1] # lossesG[1]

====
